---- MODULE Spec2Model ----
(***************************************************************************)
(* The payment page of the storefront (PaymentPage): the mount effect that *)
(* reads the two localStorage keys, the concurrent product-detail fetch    *)
(* joined by Promise.all, the proof-file input, and handleSubmit with the  *)
(* completion of its POST /booking-transaction.                            *)
(*                                                                         *)
(* One behaviour is one page entry.  Every action is one task of the       *)
(* browser's event loop: a handler runs to its first await, a response     *)
(* runs the continuation after the await, and React renders in between.    *)
(***************************************************************************)
EXTENDS Integers, Sequences, FiniteSets, TLC

VARIABLES
  storage,          \* localStorage: the keys "cart" and "bookingData"
  location,         \* the router's current URL
  effectRan,        \* TRUE once the mount effect of the page has run
  formData,         \* useState: {proof, cosmetic_ids}
  cart,             \* useState: CartItem[]
  cosmeticDetails,  \* useState: Cosmetic[]
  bookingData,      \* useState: BookingFormData | null
  formErrors,       \* useState: ZodIssue[]
  loading,          \* useState: boolean
  successMessage,   \* useState: string | null
  error,            \* useState: string | null
  fileName,         \* useState: string | null
  lookups,          \* the GET /cosmetic/{slug} promises, one per cart item
  joined,           \* the Promise.all over lookups
  getLog,           \* the slugs of the GET requests issued, in issue order
  inflight,         \* the POST /booking-transaction awaiting its response
  postCount,        \* the number of POST /booking-transaction issued
  lastEvent,        \* the task that produced the current state
  summary,          \* what the payment page last rendered
  navState,         \* the in-memory state handed to the router by navigate
  ordersForm,       \* MyOrdersPage useState: {email, booking_trx_id}
  ordersErrors,     \* MyOrdersPage useState: ZodIssue[]
  ordersLoading,    \* MyOrdersPage useState: boolean
  ordersInflight,   \* the POST /check-booking awaiting its response
  ordersPostCount   \* the number of POST /check-booking issued

\* The state of the order lookup page (MyOrdersPage).
ordersVars == <<navState, ordersForm, ordersErrors, ordersLoading,
                ordersInflight, ordersPostCount>>

vars == <<storage, location, effectRan, formData, cart, cosmeticDetails,
          bookingData, formErrors, loading, successMessage, error, fileName,
          lookups, joined, getLog, inflight, postCount, lastEvent, summary,
          navState, ordersForm, ordersErrors, ordersLoading, ordersInflight,
          ordersPostCount>>

pageState == <<formData, cart, cosmeticDetails, bookingData, formErrors,
               loading, successMessage, error, fileName>>

(***************************************************************************)
(* Bounds of the model.                                                    *)
(***************************************************************************)
MaxCart == 2        \* longest cart list in storage
MaxQuantity == 2    \* largest quantity of a cart item
MaxSubmits == 2     \* POST /booking-transaction issued in one behaviour
MaxLookups == 2     \* POST /check-booking issued in one behaviour

(***************************************************************************)
(* JavaScript values.  Values of different JavaScript types are tagged so  *)
(* that any two of them can be compared.                                   *)
(***************************************************************************)
Null == [t |-> "null"]
Undefined == [t |-> "undefined"]
Str(s) == [t |-> "string", s |-> s]
Num(n) == [t |-> "number", n |-> n]
File(name) == [t |-> "file", name |-> name]
Json(v) == [t |-> "json", v |-> v]

\* if (v): null, undefined and the empty string are falsy; objects are truthy.
Truthy(v) == v # Null /\ v # Undefined /\ v # Str("")

\* String(v), also the conversion of a template literal and of FormData.append.
JsString(v) ==
  CASE v.t = "string" -> v.s
    [] v.t = "number" -> ToString(v.n)
    [] v.t = "null" -> "null"
    [] OTHER -> "undefined"

\* obj.key on a parsed JSON object whose members are strings.
Prop(obj, key) == IF key \in DOMAIN obj THEN Str(obj[key]) ELSE Undefined

\* JSON.parse of a stored value.
JsonParse(item) == item.v

(***************************************************************************)
(* The data the page finds: carts, booking drafts, the server's catalogue. *)
(***************************************************************************)
PaymentRoute == "/payment"

SlugOf(id) == IF id = 1 THEN "x" ELSE "y"

CartItems ==
  {[cosmetic_id |-> i, slug |-> SlugOf(i), quantity |-> q] :
     i \in 1..2, q \in 1..MaxQuantity}

SeqsUpTo(S, n) == UNION {[1..k -> S] : k \in 0..n}

Carts == SeqsUpTo(CartItems, MaxCart)

GoodDraft ==
  [name |-> "Ann", email |-> "a@b.com", phone |-> "08123456789",
   post_codes |-> "40111", address |-> "Jl. Braga 1", city |-> "Bandung"]

Drafts ==
  {GoodDraft,
   [GoodDraft EXCEPT !.name = ""],
   [GoodDraft EXCEPT !.email = "a-at-b"],
   [GoodDraft EXCEPT !.phone = "call me"],
   [GoodDraft EXCEPT !.address = ""],
   [GoodDraft EXCEPT !.city = ""],
   [GoodDraft EXCEPT !.post_codes = ""]}

\* response.data.data of GET /cosmetic/{slug}
CosmeticOf(slug) ==
  IF slug = "x"
    THEN [id |-> 1, slug |-> "x", name |-> "Serum", price |-> 100000]
    ELSE [id |-> 2, slug |-> "y", name |-> "Toner", price |-> 45000]

(***************************************************************************)
(* The pricing summary, recomputed on every render from cart and           *)
(* cosmeticDetails.  subtotal and totalQuantity are whole amounts.  tax    *)
(* and total are kept in hundredths: subtotal * 0.11 is the amount         *)
(* subtotal * 11 / 100, and for the amounts reached here the double that   *)
(* JavaScript computes is the one nearest to it and rounds as it does.     *)
(***************************************************************************)
TAX_RATE == 11    \* hundredths per unit: const TAX_RATE = 0.11

\* cart.find((item) => item.cosmetic_id === id): the first match, or undefined.
FindCartItem(items, id) ==
  LET matches == {i \in 1..Len(items) : items[i].cosmetic_id = id}
  IN IF matches = {}
       THEN Undefined
       ELSE items[CHOOSE i \in matches : \A j \in matches : i <= j]

\* Variant: the quantity of the matched cart item is left out.
SubtotalTermUnitPrice(items, cosmetic) ==
  LET cartItem == FindCartItem(items, cosmetic.id)
  IN IF Truthy(cartItem) THEN cosmetic.price ELSE 0

\* cartItem ? cosmetic.price * cartItem.quantity : 0
SubtotalTerm(items, cosmetic) ==
  LET cartItem == FindCartItem(items, cosmetic.id)
  IN IF Truthy(cartItem) THEN cosmetic.price * cartItem.quantity ELSE 0

\* details.reduce((acc, cosmetic) => acc + term, 0) over the first k details.
RECURSIVE SubtotalReduce(_, _, _)
SubtotalReduce(details, items, k) ==
  IF k = 0
    THEN 0
    ELSE SubtotalReduce(details, items, k - 1) + SubtotalTerm(items, details[k])

\* items.reduce((acc, item) => acc + item.quantity, 0) over the first k items.
RECURSIVE QuantityReduce(_, _)
QuantityReduce(items, k) ==
  IF k = 0 THEN 0 ELSE QuantityReduce(items, k - 1) + items[k].quantity

subtotal == SubtotalReduce(cosmeticDetails, cart, Len(cosmeticDetails))

totalQuantity == QuantityReduce(cart, Len(cart))

\* Variant: a tax of ten per cent.
taxTenPerCent == subtotal * 10

\* subtotal * TAX_RATE, in hundredths.
tax == subtotal * TAX_RATE

\* subtotal + tax, in hundredths.
total == subtotal * 100 + tax

\* The digits of n in groups of three separated by ".", as the id-ID locale does.
RECURSIVE Grouped(_)
Grouped(n) ==
  IF n < 1000
    THEN ToString(n)
    ELSE LET rest == n % 1000
             pad == IF rest < 10 THEN "00" ELSE IF rest < 100 THEN "0" ELSE ""
         IN Grouped(n \div 1000) \o "." \o pad \o ToString(rest)

\* maximumFractionDigits: 0 rounds to the nearest whole amount, halves upwards.
RoundedAmount(hundredths) == (hundredths + 50) \div 100

\* Intl.NumberFormat("id-ID", {style: "currency", currency: "IDR",
\* maximumFractionDigits: 0}).format(value); the blank is a no-break space.
\* The argument is bound to its value once, as in a call.
formatCurrency(hundredths) ==
  CHOOSE text \in {"Rp " \o Grouped(RoundedAmount(value)) : value \in {hundredths}} :
    TRUE

\* What PaymentPage returns: the loading line, the error line, or the page
\* with the summary; nothing when another route is shown.
View ==
  IF location # PaymentRoute THEN [screen |-> "none"]
  ELSE IF loading THEN [screen |-> "loading"]
  ELSE IF Truthy(error) THEN [screen |-> "error"]
  ELSE [screen |-> "payment",
        totalQuantity |-> ToString(totalQuantity) \o " Items",
        subtotal |-> formatCurrency(subtotal * 100),
        tax |-> formatCurrency(tax),
        total |-> formatCurrency(total)]

\* Everything the return value of PaymentPage is computed from.
ViewInputs == <<location, loading, error, cart, cosmeticDetails>>

\* React renders the page again after the state updates of a task; a render
\* from unchanged inputs returns what is on screen (summary = View throughout).
Render == summary' = IF ViewInputs' = ViewInputs THEN summary ELSE View'

\* The order lookup page takes no part in a payment page entry.
OrdersIdle ==
  /\ navState = Null
  /\ ordersForm = [email |-> "", booking_trx_id |-> ""]
  /\ ordersErrors = <<>>
  /\ ordersLoading = FALSE
  /\ ordersInflight = Null
  /\ ordersPostCount = 0

(***************************************************************************)
(* Construction: the useState initial values; storage as the earlier steps *)
(* of the funnel left it.                                                  *)
(***************************************************************************)
InitialFormData == [proof |-> Null, cosmetic_ids |-> <<>>]

Init ==
  /\ storage \in [cart : {Null} \cup {Json(c) : c \in Carts},
                  bookingData : {Null} \cup {Json(d) : d \in Drafts}]
  /\ location = PaymentRoute
  /\ effectRan = FALSE
  /\ formData = InitialFormData
  /\ cart = <<>>
  /\ cosmeticDetails = <<>>
  /\ bookingData = Null
  /\ formErrors = <<>>
  /\ loading = TRUE
  /\ successMessage = Null
  /\ error = Null
  /\ fileName = Null
  /\ lookups = <<>>
  /\ joined = "none"
  /\ getLog = <<>>
  /\ inflight = Null
  /\ postCount = 0
  /\ lastEvent = [op |-> "construct"]
  /\ summary = [screen |-> "loading"]
  /\ OrdersIdle

(***************************************************************************)
(* useEffect: read both keys, route away on a missing or empty cart,       *)
(* otherwise start one lookup per cart item.                               *)
(***************************************************************************)
\* Variant: an empty list in storage is not checked for.
CartMissing(cartData) == ~Truthy(cartData)

CartMissingOrEmpty(cartData) ==
  \/ ~Truthy(cartData)
  \/ Len(JsonParse(cartData)) = 0

MountEffect ==
  /\ location = PaymentRoute
  /\ ~effectRan
  /\ effectRan' = TRUE
  /\ LET cartData == storage.cart
         savedBookingData == storage.bookingData
     IN /\ bookingData' = IF Truthy(savedBookingData)
                            THEN JsonParse(savedBookingData)
                            ELSE bookingData
        /\ IF CartMissingOrEmpty(cartData)
             THEN /\ location' = "/"
                  /\ lastEvent' = [op |-> "mount", routed |-> TRUE]
                  /\ UNCHANGED <<cart, lookups, joined, getLog>>
             ELSE LET cartItems == JsonParse(cartData)
                  IN /\ cart' = cartItems
                     /\ lookups' = [i \in 1..Len(cartItems) |->
                                      [state |-> "pending", value |-> Null]]
                     /\ joined' = "pending"
                     /\ getLog' = [i \in 1..Len(cartItems) |-> cartItems[i].slug]
                     /\ lastEvent' = [op |-> "mount", routed |-> FALSE]
                     /\ UNCHANGED location
  /\ UNCHANGED <<storage, formData, cosmeticDetails, formErrors, loading,
                 successMessage, error, fileName, inflight, postCount>>
  /\ UNCHANGED ordersVars
  /\ Render

(***************************************************************************)
(* fetchCosmeticDetails: the continuation after await Promise.all.         *)
(***************************************************************************)
\* Variant: the values are collected last to first.
FetchedDetailsReversed(ls) == [i \in 1..Len(ls) |-> ls[Len(ls) + 1 - i].value]

\* Promise.all fulfils with the values in the order of its input promises.
FetchedDetails(ls) == [i \in 1..Len(ls) |-> ls[i].value]

\* Promise.all fulfils once every input promise has fulfilled.
AllFulfilled(ls) == \A i \in 1..Len(ls) : ls[i].state = "fulfilled"

CosmeticIdsWithQuantities(cartItems) ==
  [i \in 1..Len(cartItems) |->
     [id |-> cartItems[i].cosmetic_id, quantity |-> cartItems[i].quantity]]

\* try branch: every lookup has fulfilled.
FetchSucceeded(ls) ==
  /\ joined' = "fulfilled"
  /\ cosmeticDetails' = FetchedDetails(ls)
  /\ loading' = FALSE
  /\ formData' = [formData EXCEPT !.cosmetic_ids = CosmeticIdsWithQuantities(cart)]
  /\ UNCHANGED error

\* Variant: the catch branch stops the spinner and sets no error.
FetchFailedSilently ==
  /\ joined' = "rejected"
  /\ loading' = FALSE
  /\ UNCHANGED <<error, cosmeticDetails, formData>>

\* catch branch: Promise.all rejects with its first rejection.
FetchFailed ==
  /\ joined' = "rejected"
  /\ error' = Str("Failed to fetch cosmetic details")
  /\ loading' = FALSE
  /\ UNCHANGED <<cosmeticDetails, formData>>

\* The response of the i-th GET /cosmetic/{slug} arrives.
LookupResponse(i, ok) ==
  /\ i \in 1..Len(lookups)
  /\ lookups[i].state = "pending"
  /\ LET settled ==
           IF ok THEN [state |-> "fulfilled", value |-> CosmeticOf(cart[i].slug)]
                 ELSE [state |-> "rejected", value |-> Null]
         ls == [lookups EXCEPT ![i] = settled]
     IN /\ lookups' = ls
        /\ IF joined # "pending"
             THEN UNCHANGED <<joined, cosmeticDetails, loading, formData, error>>
             ELSE IF ~ok
               THEN FetchFailed
               ELSE IF AllFulfilled(ls)
                 THEN FetchSucceeded(ls)
                 ELSE UNCHANGED <<joined, cosmeticDetails, loading, formData, error>>
  /\ lastEvent' = [op |-> "lookup", index |-> i, ok |-> ok]
  /\ UNCHANGED <<storage, location, effectRan, cart, bookingData, formErrors,
                 successMessage, fileName, getLog, inflight, postCount>>
  /\ UNCHANGED ordersVars
  /\ Render

(***************************************************************************)
(* Rendering: the form exists only when the page is shown, not loading and *)
(* without a fetch error.                                                  *)
(***************************************************************************)
\* Variant: the loading guard of the render is missing.
FormRenderedWhileLoading ==
  /\ location = PaymentRoute
  /\ ~Truthy(error)

\* Variant: the error guard of the render is missing.
FormRenderedDespiteError ==
  /\ location = PaymentRoute
  /\ ~loading

FormRendered ==
  /\ location = PaymentRoute
  /\ ~loading
  /\ ~Truthy(error)

(***************************************************************************)
(* handleChange: the proof-file input.                                     *)
(***************************************************************************)
ProofFiles == {File("proof.png"), File("receipt.jpg")}

FileList(fs) == [t |-> "filelist", v |-> fs]

\* e.target.files: null, an empty list (the dialog was cancelled) or one file.
FileInputs == {Null, FileList(<<>>)} \cup {FileList(<<f>>) : f \in ProofFiles}

\* list[0]
First(list) == IF Len(list) >= 1 THEN list[1] ELSE Undefined

HandleChange(files) ==
  /\ FormRendered
  /\ LET file == IF Truthy(files) THEN First(files.v) ELSE Null
     IN /\ formData' = [formData EXCEPT !.proof = file]
        /\ fileName' = IF Truthy(file) THEN Str(file.name) ELSE Null
        /\ lastEvent' = [op |-> "change", file |-> file]
  /\ UNCHANGED <<storage, location, effectRan, cart, cosmeticDetails, bookingData,
                 formErrors, loading, successMessage, error, lookups, joined,
                 getLog, inflight, postCount>>
  /\ UNCHANGED ordersVars
  /\ Render

(***************************************************************************)
(* paymentSchema.safeParse: the proof must be a file; a contact field that *)
(* the parsed object carries must be well formed.  One issue per field.    *)
(***************************************************************************)
ContactFields == <<"name", "email", "phone", "address", "city", "post_code">>

WellFormedEmails == {"a@b.com", "shop@mail.id"}
WellFormedPhones == {"08123456789"}

FieldOk(field, value) ==
  CASE field = "email" -> value \in WellFormedEmails
    [] field = "phone" -> value \in WellFormedPhones
    [] OTHER -> value # ""

ProofIssues(data) ==
  IF "proof" \in DOMAIN data /\ data.proof.t = "file"
    THEN <<>>
    ELSE <<[path |-> <<"proof">>, message |-> "Proof of payment is required"]>>

ContactIssues(data) ==
  LET failing == SelectSeq(ContactFields,
                   LAMBDA f : f \in DOMAIN data /\ ~FieldOk(f, data[f]))
  IN [i \in 1..Len(failing) |->
        [path |-> <<failing[i]>>, message |-> "Invalid " \o failing[i]]]

PaymentSchemaIssues(data) == ProofIssues(data) \o ContactIssues(data)

(***************************************************************************)
(* handleSubmit up to the await: validation and the multipart payload.     *)
(***************************************************************************)
Entry(name, value) == [name |-> name, value |-> value]

ProofEntries(fd) ==
  IF Truthy(fd.proof) THEN <<Entry("proof", fd.proof)>> ELSE <<>>

\* Variant: the contact fields are appended without the check for a draft.
ContactEntriesUnguarded(bd) ==
  <<Entry("name", Str(JsString(Prop(bd, "name")))),
    Entry("email", Str(JsString(Prop(bd, "email")))),
    Entry("phone", Str(JsString(Prop(bd, "phone")))),
    Entry("address", Str(JsString(Prop(bd, "address")))),
    Entry("city", Str(JsString(Prop(bd, "city")))),
    Entry("post_code", Str(JsString(Prop(bd, "post_code"))))>>

\* FormData.append converts a value that is not a file to a string.
ContactEntries(bd) ==
  IF Truthy(bd)
    THEN <<Entry("name", Str(JsString(Prop(bd, "name")))),
           Entry("email", Str(JsString(Prop(bd, "email")))),
           Entry("phone", Str(JsString(Prop(bd, "phone")))),
           Entry("address", Str(JsString(Prop(bd, "address")))),
           Entry("city", Str(JsString(Prop(bd, "city")))),
           Entry("post_code", Str(JsString(Prop(bd, "post_code"))))>>
    ELSE <<>>

\* Variant: the fields are numbered from 1.
CosmeticEntriesOneBased(ids) ==
  [k \in 1..(2 * Len(ids)) |->
     LET item == ids[(k + 1) \div 2]
         index == ToString((k + 1) \div 2)
     IN IF k % 2 = 1
          THEN Entry("cosmetic_ids[" \o index \o "][id]",
                     Str(JsString(Num(item.id))))
          ELSE Entry("cosmetic_ids[" \o index \o "][quantity]",
                     Str(JsString(Num(item.quantity))))]

\* forEach over cosmetic_ids with the 0-based index of JavaScript.
CosmeticEntries(ids) ==
  [k \in 1..(2 * Len(ids)) |->
     LET item == ids[(k + 1) \div 2]
         index == ToString(((k + 1) \div 2) - 1)
     IN IF k % 2 = 1
          THEN Entry("cosmetic_ids[" \o index \o "][id]",
                     Str(JsString(Num(item.id))))
          ELSE Entry("cosmetic_ids[" \o index \o "][quantity]",
                     Str(JsString(Num(item.quantity))))]

SubmissionData(fd, bd) ==
  ProofEntries(fd) \o ContactEntries(bd) \o CosmeticEntries(fd.cosmetic_ids)

\* The object handed to paymentSchema.safeParse.
ValidatedObject == formData

\* Variant: the early return after a failed validation is missing.
HandleSubmitWithoutReturn ==
  /\ FormRendered
  /\ postCount < MaxSubmits
  /\ LET issues == PaymentSchemaIssues(ValidatedObject)
     IN /\ formErrors' = <<>>
        /\ lastEvent' = [op |-> "submit", valid |-> issues = <<>>]
  /\ loading' = TRUE
  /\ inflight' = [url |-> "/booking-transaction",
                  data |-> SubmissionData(formData, bookingData)]
  /\ postCount' = postCount + 1
  /\ UNCHANGED <<storage, location, effectRan, formData, cart, cosmeticDetails,
                 bookingData, successMessage, error, fileName, lookups, joined,
                 getLog>>
  /\ UNCHANGED ordersVars
  /\ Render

\* Variant: a submit that passes validation leaves formErrors as they are.
HandleSubmitKeepingErrors ==
  /\ FormRendered
  /\ LET issues == PaymentSchemaIssues(ValidatedObject)
     IN IF issues # <<>>
          THEN /\ formErrors' = issues
               /\ lastEvent' = [op |-> "submit", valid |-> FALSE]
               /\ UNCHANGED <<loading, inflight, postCount>>
          ELSE /\ postCount < MaxSubmits
               /\ UNCHANGED formErrors
               /\ loading' = TRUE
               /\ inflight' = [url |-> "/booking-transaction",
                               data |-> SubmissionData(formData, bookingData)]
               /\ postCount' = postCount + 1
               /\ lastEvent' = [op |-> "submit", valid |-> TRUE]
  /\ UNCHANGED <<storage, location, effectRan, formData, cart, cosmeticDetails,
                 bookingData, successMessage, error, fileName, lookups, joined,
                 getLog>>
  /\ UNCHANGED ordersVars
  /\ Render

HandleSubmit ==
  /\ FormRendered
  /\ LET issues == PaymentSchemaIssues(ValidatedObject)
     IN IF issues # <<>>
          THEN /\ formErrors' = issues
               /\ lastEvent' = [op |-> "submit", valid |-> FALSE]
               /\ UNCHANGED <<loading, inflight, postCount>>
          ELSE /\ postCount < MaxSubmits
               /\ formErrors' = <<>>
               /\ loading' = TRUE
               /\ inflight' = [url |-> "/booking-transaction",
                               data |-> SubmissionData(formData, bookingData)]
               /\ postCount' = postCount + 1
               /\ lastEvent' = [op |-> "submit", valid |-> TRUE]
  /\ UNCHANGED <<storage, location, effectRan, formData, cart, cosmeticDetails,
                 bookingData, successMessage, error, fileName, lookups, joined,
                 getLog>>
  /\ UNCHANGED ordersVars
  /\ Render

(***************************************************************************)
(* handleSubmit after the await: the response of POST /booking-transaction.*)
(***************************************************************************)
\* response.data.data: absent, or an object with the fields the server sent.
ResponseBodies ==
  {Undefined,
   [booking_trx_id |-> "TRX1", email |-> "a@b.com"],
   [booking_trx_id |-> "TRX1", email |-> "shop@mail.id"],
   [email |-> "a@b.com"]}

\* The HTTP client resolves a 2xx response and rejects everything else.
PostOutcomes ==
  [kind : {"resolved"}, status : {200, 201, 204}, data : ResponseBodies]
    \cup [kind : {"rejected"}, status : {0, 500}, data : {Undefined}]

BookingFinishedUrl(bookingTrxId, email) ==
  "/booking-finished?trx_id=" \o JsString(bookingTrxId)
     \o "&email=" \o JsString(email)

\* if (response.status === 200 || response.status === 201)
IsSuccessStatus(status) == status = 200 \/ status = 201

\* Variant: the catch branch also resets the form, as the success branch does.
SubmitThrewResetting ==
  /\ loading' = FALSE
  /\ formErrors' = <<>>
  /\ formData' = [proof |-> Null, cosmetic_ids |-> <<>>]
  /\ UNCHANGED <<storage, location, successMessage>>

\* catch: a rejected request, or reading a field of an absent response body.
SubmitThrew ==
  /\ loading' = FALSE
  /\ formErrors' = <<>>
  /\ UNCHANGED <<storage, location, formData, successMessage>>

\* else branch: a resolved response with another status.
SubmitUnexpectedStatus ==
  /\ loading' = FALSE
  /\ UNCHANGED <<storage, location, formData, successMessage, formErrors>>

\* Variant: the confirmation URL carries the email of the booking draft.
SubmitAcceptedDraftEmail(data) ==
  LET bookingTrxId == Prop(data, "booking_trx_id")
      email == IF Truthy(bookingData) THEN Prop(bookingData, "email") ELSE Undefined
  IN /\ successMessage' = Str("Payment proof uploaded successfully")
     /\ storage' = [cart |-> Null, bookingData |-> Null]
     /\ formData' = [proof |-> Null, cosmetic_ids |-> <<>>]
     /\ loading' = FALSE
     /\ location' = BookingFinishedUrl(bookingTrxId, email)
     /\ UNCHANGED formErrors

\* Variant: a response that arrives after the page was left is dropped.
SubmitAcceptedOnPageOnly(data) ==
  LET bookingTrxId == Prop(data, "booking_trx_id")
      email == Prop(data, "email")
  IN IF location = PaymentRoute
       THEN /\ successMessage' = Str("Payment proof uploaded successfully")
            /\ storage' = [cart |-> Null, bookingData |-> Null]
            /\ formData' = [proof |-> Null, cosmetic_ids |-> <<>>]
            /\ loading' = FALSE
            /\ location' = BookingFinishedUrl(bookingTrxId, email)
            /\ UNCHANGED formErrors
       ELSE UNCHANGED <<successMessage, storage, formData, loading, location,
                        formErrors>>

\* then branch: the storage keys are removed and the page navigates.
SubmitAccepted(data) ==
  LET bookingTrxId == Prop(data, "booking_trx_id")
      email == Prop(data, "email")
  IN /\ successMessage' = Str("Payment proof uploaded successfully")
     /\ storage' = [cart |-> Null, bookingData |-> Null]
     /\ formData' = [proof |-> Null, cosmetic_ids |-> <<>>]
     /\ loading' = FALSE
     /\ location' = BookingFinishedUrl(bookingTrxId, email)
     /\ UNCHANGED formErrors

PostResponse(r) ==
  /\ inflight # Null
  /\ inflight' = Null
  /\ IF r.kind = "rejected"
       THEN SubmitThrew
       ELSE IF IsSuccessStatus(r.status)
         THEN IF r.data = Undefined
                THEN SubmitThrew
                ELSE SubmitAccepted(r.data)
         ELSE SubmitUnexpectedStatus
  /\ lastEvent' = [op |-> "response", response |-> r, at |-> location]
  /\ UNCHANGED <<effectRan, cart, cosmeticDetails, bookingData, error, fileName,
                 lookups, joined, getLog, postCount>>
  /\ UNCHANGED ordersVars
  /\ Render

(***************************************************************************)
(* The user leaves the page (the back link to /booking, the back button).  *)
(* Requests in flight are not aborted.                                     *)
(***************************************************************************)
Leave ==
  /\ effectRan
  /\ location = PaymentRoute
  /\ location' = "/booking"
  /\ lastEvent' = [op |-> "leave"]
  /\ UNCHANGED <<storage, effectRan, formData, cart, cosmeticDetails, bookingData,
                 formErrors, loading, successMessage, error, fileName, lookups,
                 joined, getLog, inflight, postCount>>
  /\ UNCHANGED ordersVars
  /\ Render

Next ==
  \/ MountEffect
  \/ \E i \in 1..MaxCart, ok \in BOOLEAN : LookupResponse(i, ok)
  \/ \E files \in FileInputs : HandleChange(files)
  \/ HandleSubmit
  \/ \E r \in PostOutcomes : PostResponse(r)
  \/ Leave

Spec == Init /\ [][Next]_vars

(***************************************************************************)
(* The pricing summary on its own: the page holds a cart and the details   *)
(* the server returned for its slugs, whatever their ids and prices, and   *)
(* renders.                                                                *)
(***************************************************************************)
Prices == {100000, 45010, 1250}

\* response.data.data of GET /cosmetic/{slug} on a server free to answer with
\* any product.
DetailsFor(item) ==
  {[id |-> i, slug |-> item.slug, name |-> "Serum", price |-> p] :
     i \in 1..3, p \in Prices}

PricingInit ==
  \E c \in Carts \ {<<>>} :
    \E d \in [1..Len(c) -> UNION {DetailsFor(c[i]) : i \in 1..Len(c)}] :
      /\ \A i \in 1..Len(c) : d[i] \in DetailsFor(c[i])
      /\ storage = [cart |-> Json(c), bookingData |-> Null]
      /\ location = PaymentRoute
      /\ effectRan = TRUE
      /\ formData = [proof |-> Null, cosmetic_ids |-> CosmeticIdsWithQuantities(c)]
      /\ cart = c
      /\ cosmeticDetails = d
      /\ bookingData = Null
      /\ formErrors = <<>>
      /\ loading = FALSE
      /\ successMessage = Null
      /\ error = Null
      /\ fileName = Null
      /\ lookups = [i \in 1..Len(c) |-> [state |-> "fulfilled", value |-> d[i]]]
      /\ joined = "fulfilled"
      /\ getLog = [i \in 1..Len(c) |-> c[i].slug]
      /\ inflight = Null
      /\ postCount = 0
      /\ lastEvent = [op |-> "lookup", index |-> Len(c), ok |-> TRUE]
      /\ summary = [screen |-> "loading"]
      /\ OrdersIdle

\* The render that follows the state updates of fetchCosmeticDetails.
RenderPage ==
  /\ summary # View
  /\ summary' = View
  /\ lastEvent' = [op |-> "render"]
  /\ UNCHANGED <<storage, location, effectRan, formData, cart, cosmeticDetails,
                 bookingData, formErrors, loading, successMessage, error, fileName,
                 lookups, joined, getLog, inflight, postCount>>
  /\ UNCHANGED ordersVars

PricingNext == RenderPage

PricingSpec == PricingInit /\ [][PricingNext]_vars

(***************************************************************************)
(* The order lookup page (MyOrdersPage): the two text inputs, handleSubmit *)
(* up to its await, and the completion of POST /check-booking.  One        *)
(* behaviour is one entry to the page.                                     *)
(***************************************************************************)
OrdersRoute == "/check-booking"

EmailInputs == {"", "a@b.com", "a@b", "a-at-b"}

TrxIdInputs == {"", "TRX1", "TRX2"}

\* data.data of a found booking.
BookingRecords ==
  {[booking_trx_id |-> "TRX1", email |-> "a@b.com", is_paid |-> TRUE],
   [booking_trx_id |-> "TRX2", email |-> "a@b.com", is_paid |-> FALSE]}

OrdersInit ==
  /\ storage = [cart |-> Null, bookingData |-> Null]
  /\ location = OrdersRoute
  /\ effectRan = FALSE
  /\ formData = InitialFormData
  /\ cart = <<>>
  /\ cosmeticDetails = <<>>
  /\ bookingData = Null
  /\ formErrors = <<>>
  /\ loading = TRUE
  /\ successMessage = Null
  /\ error = Null
  /\ fileName = Null
  /\ lookups = <<>>
  /\ joined = "none"
  /\ getLog = <<>>
  /\ inflight = Null
  /\ postCount = 0
  /\ lastEvent = [op |-> "construct"]
  /\ summary = [screen |-> "none"]
  /\ OrdersIdle

paymentVars == <<storage, effectRan, formData, cart, cosmeticDetails, bookingData,
                 formErrors, loading, successMessage, error, fileName, lookups,
                 joined, getLog, inflight, postCount, summary>>

\* handleChange: [name]: value on the input that changed.
OrdersHandleChange(name, value) ==
  /\ location = OrdersRoute
  /\ ordersForm' = [ordersForm EXCEPT ![name] = value]
  /\ lastEvent' = [op |-> "ordersChange", name |-> name, value |-> value]
  /\ UNCHANGED <<location, navState, ordersErrors, ordersLoading, ordersInflight,
                 ordersPostCount>>
  /\ UNCHANGED paymentVars

\* The browser fires no submit event while the type="email" input holds a
\* value that is not an address; the empty value passes (it is not required).
BrowserAcceptsEmail(value) == value \in {"", "a@b.com", "a@b"}

\* viewBookingSchema.safeParse: a booking id and a well-formed email.
ViewBookingSchemaIssues(data) ==
  (IF data.booking_trx_id = ""
     THEN <<[path |-> <<"booking_trx_id">>, message |-> "Booking ID is required"]>>
     ELSE <<>>)
  \o (IF data.email \notin WellFormedEmails
        THEN <<[path |-> <<"email">>, message |-> "Invalid email"]>>
        ELSE <<>>)

\* Variant: the submit button is never disabled.
OrdersFormAlwaysEnabled ==
  /\ location = OrdersRoute
  /\ BrowserAcceptsEmail(ordersForm.email)

\* The submit button is disabled while loading.
OrdersFormEnabled ==
  /\ location = OrdersRoute
  /\ ~ordersLoading
  /\ BrowserAcceptsEmail(ordersForm.email)

\* Variant: the early return after a failed validation is missing.
OrdersHandleSubmitWithoutReturn ==
  /\ OrdersFormEnabled
  /\ ordersPostCount < MaxLookups
  /\ ordersErrors' = <<>>
  /\ ordersLoading' = TRUE
  /\ ordersInflight' = [url |-> "/check-booking", data |-> ordersForm]
  /\ ordersPostCount' = ordersPostCount + 1
  /\ lastEvent' = [op |-> "ordersSubmit",
                   valid |-> ViewBookingSchemaIssues(ordersForm) = <<>>]
  /\ UNCHANGED <<location, navState, ordersForm>>
  /\ UNCHANGED paymentVars

\* handleSubmit up to the await.
OrdersHandleSubmit ==
  /\ OrdersFormEnabled
  /\ LET issues == ViewBookingSchemaIssues(ordersForm)
     IN IF issues # <<>>
          THEN /\ ordersErrors' = issues
               /\ lastEvent' = [op |-> "ordersSubmit", valid |-> FALSE]
               /\ UNCHANGED <<ordersLoading, ordersInflight, ordersPostCount>>
          ELSE /\ ordersPostCount < MaxLookups
               /\ ordersErrors' = <<>>
               /\ ordersLoading' = TRUE
               /\ ordersInflight' = [url |-> "/check-booking", data |-> ordersForm]
               /\ ordersPostCount' = ordersPostCount + 1
               /\ lastEvent' = [op |-> "ordersSubmit", valid |-> TRUE]
  /\ UNCHANGED <<location, navState, ordersForm>>
  /\ UNCHANGED paymentVars

\* The HTTP client resolves a 2xx response; it rejects with an error that
\* carries the response of any other status, or no response at all; and the
\* try block can end in an exception that is not the client's.
CheckOutcomes ==
  [kind : {"resolved"}, status : {200, 201}, data : BookingRecords \cup {Undefined}]
    \cup [kind : {"rejected"}, axios : {TRUE}, status : {404, 500, 0}, data : {Undefined}]
    \cup [kind : {"rejected"}, axios : {FALSE}, status : {0}, data : {Undefined}]

\* navigate("/my-booking", {state})
NavigateToMyBooking(bookingDetails, notFound) ==
  /\ location' = "/my-booking"
  /\ navState' = [bookingDetails |-> bookingDetails, notFound |-> notFound]

\* Variant: the found branch does not look at the status.
OrdersResolvedAnyStatus(r) ==
  IF Truthy(r.data)
    THEN NavigateToMyBooking(r.data, FALSE)
    ELSE NavigateToMyBooking(Null, TRUE)

\* try: response.status === 200 && response.data.data
OrdersResolved(r) ==
  IF r.status = 200 /\ Truthy(r.data)
    THEN NavigateToMyBooking(r.data, FALSE)
    ELSE NavigateToMyBooking(Null, TRUE)

\* Variant: a 404 is swallowed like every other error.
OrdersRejectedSilently(r) == UNCHANGED <<location, navState>>

\* catch: only the client's error with a 404 response navigates.
OrdersRejected(r) ==
  IF r.axios /\ r.status = 404
    THEN NavigateToMyBooking(Null, TRUE)
    ELSE UNCHANGED <<location, navState>>

\* Variant: there is no finally block.
OrdersFinallyMissing == UNCHANGED ordersLoading

\* finally: setLoading(false)
OrdersFinally == ordersLoading' = FALSE

\* Variant: a failure other than a 404 sends the request again.
OrdersResponseRetrying(r) ==
  /\ ordersInflight # Null
  /\ IF r.kind = "rejected" /\ ~(r.axios /\ r.status = 404)
          /\ ordersPostCount < MaxLookups
       THEN /\ ordersPostCount' = ordersPostCount + 1
            /\ UNCHANGED <<ordersInflight, ordersLoading, location, navState>>
       ELSE /\ ordersInflight' = Null
            /\ IF r.kind = "resolved" THEN OrdersResolved(r) ELSE OrdersRejected(r)
            /\ OrdersFinally
            /\ UNCHANGED ordersPostCount
  /\ lastEvent' = [op |-> "ordersResponse", response |-> r, at |-> location]
  /\ UNCHANGED <<ordersForm, ordersErrors>>
  /\ UNCHANGED paymentVars

\* handleSubmit after the await, with its finally.
OrdersResponse(r) ==
  /\ ordersInflight # Null
  /\ ordersInflight' = Null
  /\ IF r.kind = "resolved" THEN OrdersResolved(r) ELSE OrdersRejected(r)
  /\ OrdersFinally
  /\ lastEvent' = [op |-> "ordersResponse", response |-> r, at |-> location]
  /\ UNCHANGED <<ordersForm, ordersErrors, ordersPostCount>>
  /\ UNCHANGED paymentVars

\* The user leaves the page by the link to /.
OrdersLeave ==
  /\ location = OrdersRoute
  /\ location' = "/"
  /\ navState' = Null
  /\ lastEvent' = [op |-> "ordersLeave"]
  /\ UNCHANGED <<ordersForm, ordersErrors, ordersLoading, ordersInflight,
                 ordersPostCount>>
  /\ UNCHANGED paymentVars

OrdersNext ==
  \/ \E value \in EmailInputs : OrdersHandleChange("email", value)
  \/ \E value \in TrxIdInputs : OrdersHandleChange("booking_trx_id", value)
  \/ OrdersHandleSubmit
  \/ \E r \in CheckOutcomes : OrdersResponse(r)
  \/ OrdersLeave

OrdersSpec == OrdersInit /\ [][OrdersNext]_vars

(***************************************************************************)
(* The two pages together: a behaviour is one entry to either page.        *)
(***************************************************************************)
AppInit == Init \/ OrdersInit

AppNext == Next \/ OrdersNext

AppSpec == AppInit /\ [][AppNext]_vars

(***************************************************************************)
(* Vocabulary of the properties.  lastEvent' names the task a step runs.   *)
(***************************************************************************)
ResponseStep == lastEvent'.op = "response"

\* A 200/201 response whose body carries a booking_trx_id.
FullySuccessful(r) ==
  /\ r.kind = "resolved"
  /\ r.status \in {200, 201}
  /\ r.data # Undefined
  /\ "booking_trx_id" \in DOMAIN r.data

\* A 200/201 response whose body lacks the booking_trx_id.
MalformedSuccess(r) ==
  /\ r.kind = "resolved"
  /\ r.status \in {200, 201}
  /\ (r.data = Undefined \/ "booking_trx_id" \notin DOMAIN r.data)

BothKeysRemoved == storage.cart = Null /\ storage.bookingData = Null

(***************************************************************************)
(* C1: a 200/201 response carrying booking_trx_id T and email E removes    *)
(* both storage keys, resets formData, sets loading to false and navigates *)
(* to /booking-finished?trx_id=T&email=E with the values of the response.  *)
(***************************************************************************)
C1_SuccessClearsAndNavigates ==
  (/\ lastEvent.op = "response"
   /\ FullySuccessful(lastEvent.response)
   /\ "email" \in DOMAIN lastEvent.response.data)
  => /\ BothKeysRemoved
     /\ formData = [proof |-> Null, cosmetic_ids |-> <<>>]
     /\ loading = FALSE
     /\ location = "/booking-finished?trx_id="
                     \o lastEvent.response.data.booking_trx_id
                     \o "&email=" \o lastEvent.response.data.email

\* The response's email differs from the draft's, and it is the one sent on.
C1_Witness ==
  /\ lastEvent.op = "response"
  /\ lastEvent.response.status = 201
  /\ lastEvent.response.data = [booking_trx_id |-> "TRX1", email |-> "shop@mail.id"]
  /\ bookingData = GoodDraft
  /\ location = "/booking-finished?trx_id=TRX1&email=shop@mail.id"

(***************************************************************************)
(* C2: a 200/201 response without the booking_trx_id counts as a failed    *)
(* submission: both keys stay in storage, formData is not reset and the    *)
(* page does not navigate to the confirmation view.                        *)
(***************************************************************************)
C2_MalformedSuccessIsFailure ==
  [][(ResponseStep /\ MalformedSuccess(lastEvent'.response))
       => (storage' = storage /\ formData' = formData /\ location' = location)]_vars

(***************************************************************************)
(* C3: the two storage keys change only by being removed together, and     *)
(* only when a fully successful response is received.                      *)
(***************************************************************************)
C3_KeysRemovedOnlyOnFullSuccess ==
  [][storage' # storage
       => (/\ storage'.cart = Null
           /\ storage'.bookingData = Null
           /\ ResponseStep
           /\ FullySuccessful(lastEvent'.response))]_vars

(***************************************************************************)
(* C4: a submission that ends in a non-2xx status or a network failure     *)
(* leaves formData, the cart, the details, the draft, storage and the URL  *)
(* as they were and sets loading to false; on the page the same submission *)
(* can be sent again as it stands.                                         *)
(***************************************************************************)
C4_FailedSubmitKeepsSubmission ==
  [][(ResponseStep /\ lastEvent'.response.kind = "rejected")
       => (/\ formData' = formData
           /\ cart' = cart
           /\ cosmeticDetails' = cosmeticDetails
           /\ bookingData' = bookingData
           /\ storage' = storage
           /\ location' = location
           /\ loading' = FALSE
           /\ formData'.proof \in ProofFiles
           /\ formData'.cosmetic_ids # <<>>
           /\ (location' = PaymentRoute => error' = Null))]_vars

C4_Witness ==
  /\ lastEvent.op = "response"
  /\ lastEvent.response.kind = "rejected"
  /\ lastEvent.response.status = 500
  /\ location = PaymentRoute
  /\ formData.proof = File("receipt.jpg")
  /\ Len(formData.cosmetic_ids) = 2
  /\ storage.cart # Null
  /\ loading = FALSE

(***************************************************************************)
(* C5: a submit that fails validation, as every submit without a proof     *)
(* file does, issues no request, leaves storage, formData and loading      *)
(* alone and sets formErrors to the issues; a submit with a proof file and *)
(* a fully-formed draft issues the request.                                *)
(***************************************************************************)
C5_InvalidSubmitHasNoEffect ==
  [][lastEvent'.op = "submit"
       => (/\ (formData.proof \notin ProofFiles => ~lastEvent'.valid)
           /\ (~lastEvent'.valid
                 => /\ inflight' = Null
                    /\ postCount' = postCount
                    /\ storage' = storage
                    /\ formData' = formData
                    /\ loading' = loading
                    /\ location' = location
                    /\ UNCHANGED <<cart, cosmeticDetails, bookingData,
                                   successMessage, error, fileName>>
                    /\ formErrors' # <<>>
                    /\ \A i \in 1..Len(formErrors') : formErrors'[i].path = <<"proof">>)
           /\ ((formData.proof \in ProofFiles /\ bookingData = GoodDraft)
                 => /\ inflight' # Null
                    /\ postCount' = postCount + 1))]_vars

\* A rejected submit: nothing picked, the issue is shown, nothing was sent.
C5_Witness ==
  /\ lastEvent = [op |-> "submit", valid |-> FALSE]
  /\ formData.proof = Undefined
  /\ formErrors # <<>>
  /\ postCount = 0
  /\ inflight = Null
  /\ loading = FALSE

(***************************************************************************)
(* C6: with a booking draft one of whose contact fields is malformed, no   *)
(* POST /booking-transaction is issued.                                    *)
(***************************************************************************)
DraftMalformed(d) ==
  \/ d.name = ""
  \/ d.address = ""
  \/ d.city = ""
  \/ d.post_codes = ""
  \/ d.email \notin WellFormedEmails
  \/ d.phone \notin WellFormedPhones

C6_MalformedDraftNeverSent ==
  (bookingData # Null /\ DraftMalformed(bookingData))
    => (postCount = 0 /\ inflight = Null)

(***************************************************************************)
(* C7: after a submission that failed, the page state carries a failure    *)
(* indication that an idle page does not have.                             *)
(***************************************************************************)
C7_FailureIsIndicated ==
  (/\ lastEvent.op = "response"
   /\ (lastEvent.response.kind = "rejected" \/ MalformedSuccess(lastEvent.response)))
  => (Truthy(error) \/ formErrors # <<>>)

(***************************************************************************)
(* C8: once a product lookup has failed the page is in the error state     *)
(* (error set, loading false, no details, no cosmetic_ids); the responses  *)
(* that arrive afterwards change nothing and no lookup is issued again.    *)
(***************************************************************************)
SomeLookupFailed == \E i \in 1..Len(lookups) : lookups[i].state = "rejected"

ErrorState ==
  /\ error = Str("Failed to fetch cosmetic details")
  /\ loading = FALSE
  /\ cosmeticDetails = <<>>
  /\ formData.cosmetic_ids = <<>>

C8_AnyLookupFailureIsErrorState ==
  [][/\ SomeLookupFailed' => ErrorState'
     /\ (SomeLookupFailed /\ lastEvent'.op = "lookup")
          => UNCHANGED <<pageState, storage, location, inflight, postCount>>
     /\ effectRan => getLog' = getLog]_vars

\* Lookup 2 failed first; the response of lookup 1 arrived afterwards.
C8_Witness ==
  /\ Len(lookups) = 2
  /\ lookups[2].state = "rejected"
  /\ lookups[1].state = "fulfilled"
  /\ lastEvent = [op |-> "lookup", index |-> 1, ok |-> TRUE]
  /\ ErrorState

(***************************************************************************)
(* C9: one GET /cosmetic/{slug} per cart item is issued at entry, before   *)
(* any response; when the last lookup succeeds, in whatever order they     *)
(* completed, cosmeticDetails holds the detail of each cart item in cart   *)
(* order, loading is false, error is null and formData.cosmetic_ids holds  *)
(* the (cosmetic_id, quantity) pairs of the cart in cart order.            *)
(***************************************************************************)
EveryLookupSucceeded ==
  /\ Len(lookups) > 0
  /\ \A i \in 1..Len(lookups) : lookups[i].state = "fulfilled"

C9_FetchJoinsInCartOrder ==
  /\ (effectRan /\ location # "/")
       => /\ Len(getLog) = Len(cart)
          /\ Len(lookups) = Len(cart)
          /\ \A i \in 1..Len(cart) : getLog[i] = cart[i].slug
  /\ (\E i \in 1..Len(lookups) : lookups[i].state = "pending")
       => (cosmeticDetails = <<>> /\ formData.cosmetic_ids = <<>>)
  /\ EveryLookupSucceeded
       => /\ Len(cosmeticDetails) = Len(cart)
          /\ \A i \in 1..Len(cart) :
               /\ cosmeticDetails[i].slug = cart[i].slug
               /\ cosmeticDetails[i].id = cart[i].cosmetic_id
          /\ error = Null
  /\ (EveryLookupSucceeded /\ lastEvent.op = "lookup")
       => /\ loading = FALSE
          /\ Len(formData.cosmetic_ids) = Len(cart)
          /\ \A i \in 1..Len(cart) :
               /\ formData.cosmetic_ids[i].id = cart[i].cosmetic_id
               /\ formData.cosmetic_ids[i].quantity = cart[i].quantity

\* Two different products; lookup 2 completed before lookup 1.
C9_Witness ==
  /\ Len(cart) = 2
  /\ cart[1].slug = "y"
  /\ cart[2].slug = "x"
  /\ cart[1].quantity # cart[2].quantity
  /\ EveryLookupSucceeded
  /\ lastEvent = [op |-> "lookup", index |-> 1, ok |-> TRUE]
  /\ Len(cosmeticDetails) = 2

(***************************************************************************)
(* C10: entering with the cart key absent or holding an empty list         *)
(* navigates to / without issuing a lookup, and from there no POST         *)
(* /booking-transaction is ever issued.                                    *)
(***************************************************************************)
C10_EmptyCartRoutesAway ==
  [][/\ (~effectRan /\ effectRan' /\ (storage.cart = Null \/ storage.cart = Json(<<>>)))
          => (location' = "/" /\ getLog' = <<>> /\ lookups' = <<>>)
     /\ location = "/"
          => (/\ location' = "/"
              /\ getLog' = <<>>
              /\ postCount' = 0
              /\ inflight' = Null)]_vars

C10_Witness ==
  /\ effectRan
  /\ storage.cart = Json(<<>>)
  /\ storage.bookingData = Json(GoodDraft)
  /\ location = "/"
  /\ loading = TRUE
  /\ postCount = 0

(***************************************************************************)
(* C11: entering with a non-empty cart and no bookingData key routes the   *)
(* user away: the page is left and no submission can be made.              *)
(***************************************************************************)
C11_MissingDraftRoutesAway ==
  (effectRan /\ cart # <<>> /\ bookingData = Null)
    => (location # PaymentRoute /\ summary.screen # "payment" /\ postCount = 0)

(***************************************************************************)
(* C12: without a stored draft the page still starts the lookups and shows *)
(* the summary once they succeed, and a submit with a proof file is sent   *)
(* with none of the contact fields and without an error.                   *)
(***************************************************************************)
PayloadContactNames == {"name", "email", "phone", "address", "city", "post_code"}

C12_MissingDraftIsTolerated ==
  [][/\ (/\ ~effectRan
         /\ effectRan'
         /\ storage.bookingData = Null
         /\ storage.cart \notin {Null, Json(<<>>)})
          => (/\ location' = PaymentRoute
              /\ bookingData' = Null
              /\ Len(getLog') = Len(storage.cart.v))
     /\ (/\ bookingData = Null
         /\ location = PaymentRoute
         /\ lastEvent'.op = "lookup"
         /\ \A i \in 1..Len(lookups') : lookups'[i].state = "fulfilled")
          => summary'.screen = "payment"
     /\ (/\ lastEvent'.op = "submit"
         /\ bookingData = Null
         /\ formData.proof \in ProofFiles)
          => (/\ lastEvent'.valid
              /\ inflight' # Null
              /\ \A k \in 1..Len(inflight'.data) :
                   inflight'.data[k].name \notin PayloadContactNames
              /\ error' = Null
              /\ formErrors' = <<>>)]_vars

C12_Witness ==
  /\ storage.bookingData = Null
  /\ bookingData = Null
  /\ lastEvent = [op |-> "submit", valid |-> TRUE]
  /\ inflight # Null
  /\ Len(cart) = 2
  /\ Len(inflight.data) = 5

(***************************************************************************)
(* C13: subtotal is the sum of price * quantity over the details paired    *)
(* with the cart item of the same product id, a detail without such an     *)
(* item adds 0, and totalQuantity is the sum of all cart quantities.       *)
(***************************************************************************)
RECURSIVE SumOf(_)
SumOf(f) ==
  IF DOMAIN f = {}
    THEN 0
    ELSE LET x == CHOOSE x \in DOMAIN f : TRUE
         IN f[x] + SumOf([y \in DOMAIN f \ {x} |-> f[y]])

\* <<j, i>>: detail j and cart item i carry the same product id.
MatchingPairs ==
  {p \in (1..Len(cosmeticDetails)) \X (1..Len(cart)) :
     cosmeticDetails[p[1]].id = cart[p[2]].cosmetic_id}

\* The pairs in which i is the first cart item of that product id.
FirstMatchingPairs ==
  {p \in MatchingPairs :
     \A h \in 1..(p[2] - 1) : cart[h].cosmetic_id # cart[p[2]].cosmetic_id}

CartKeyedByProduct ==
  \A i, j \in 1..Len(cart) : cart[i].cosmetic_id = cart[j].cosmetic_id => i = j

PairAmount(p) == cosmeticDetails[p[1]].price * cart[p[2]].quantity

C13_SubtotalOverMatchedPairs ==
  /\ subtotal = SumOf([p \in FirstMatchingPairs |-> PairAmount(p)])
  /\ CartKeyedByProduct
       => subtotal = SumOf([p \in MatchingPairs |-> PairAmount(p)])
  /\ MatchingPairs = {} => subtotal = 0
  /\ totalQuantity = SumOf([i \in 1..Len(cart) |-> cart[i].quantity])
  /\ summary.screen = "payment"
       => summary.totalQuantity
            = ToString(SumOf([i \in 1..Len(cart) |-> cart[i].quantity])) \o " Items"

\* One detail matches the first cart item, the other matches none.
C13_Witness ==
  /\ summary.screen = "payment"
  /\ Len(cart) = 2
  /\ cart[1].cosmetic_id = 1
  /\ cart[1].quantity = 2
  /\ cart[2].cosmetic_id = 2
  /\ cosmeticDetails[1].id = 1
  /\ cosmeticDetails[1].price = 45010
  /\ cosmeticDetails[2].id = 3
  /\ subtotal = 90020
  /\ totalQuantity = 2 + cart[2].quantity

(***************************************************************************)
(* C14: tax is 11% of subtotal, total is subtotal plus tax, and what is    *)
(* shown for total is subtotal plus what is shown for tax (11% of 1250 is  *)
(* 137.5 and is shown as 138, the total as 1.388); for the cart            *)
(* [{cosmetic_id: 1, slug: "x", quantity: 2}] with detail {id: 1, price:   *)
(* 100000}: subtotal 200000, totalQuantity 2, tax 22000, total 222000.     *)
(***************************************************************************)
ExampleCart == <<[cosmetic_id |-> 1, slug |-> "x", quantity |-> 2]>>

ExampleDetails == <<[id |-> 1, slug |-> "x", name |-> "Serum", price |-> 100000]>>

C14_TaxAndTotal ==
  /\ tax = 11 * subtotal
  /\ total = 100 * subtotal + tax
  /\ (total + 50) \div 100 = subtotal + ((tax + 50) \div 100)
  /\ (cart = ExampleCart /\ cosmeticDetails = ExampleDetails)
       => /\ subtotal = 200000
          /\ totalQuantity = 2
          /\ tax = 22000 * 100
          /\ total = 222000 * 100
  /\ (cart = ExampleCart /\ cosmeticDetails = ExampleDetails /\ summary.screen = "payment")
       => /\ summary.subtotal = "Rp 200.000"
          /\ summary.tax = "Rp 22.000"
          /\ summary.total = "Rp 222.000"
          /\ summary.totalQuantity = "2 Items"
  /\ (subtotal = 1250 /\ summary.screen = "payment")
       => (summary.tax = "Rp 138" /\ summary.total = "Rp 1.388")

C14_Witness ==
  /\ cart = ExampleCart
  /\ cosmeticDetails = ExampleDetails
  /\ summary.screen = "payment"
  /\ summary.total = "Rp 222.000"

(***************************************************************************)
(* C15: every payload sent carries the picked file under "proof" and, for  *)
(* the i-th cart item (i from 0), cosmetic_ids[i][id] and                  *)
(* cosmetic_ids[i][quantity] with its product id and quantity: one pair    *)
(* per cart item, in cart order, and no other pair.                        *)
(***************************************************************************)
\* The entries of a payload that are neither the proof nor a contact field.
PairEntries(data) ==
  SelectSeq(data, LAMBDA e : e.name \notin ({"proof"} \cup PayloadContactNames))

ProofEntriesOf(data) == SelectSeq(data, LAMBDA e : e.name = "proof")

C15_PayloadProofAndPairs ==
  inflight # Null
    => LET data == inflight.data
           stored == storage.cart.v
           pairs == PairEntries(data)
       IN /\ Len(ProofEntriesOf(data)) = 1
          /\ ProofEntriesOf(data)[1].value \in ProofFiles
          /\ ProofEntriesOf(data)[1].value = formData.proof
          /\ fileName = Str(ProofEntriesOf(data)[1].value.name)
          /\ stored = cart
          /\ Len(pairs) = 2 * Len(stored)
          /\ \A i \in 1..Len(stored) :
               /\ pairs[2 * i - 1].name = "cosmetic_ids[" \o ToString(i - 1) \o "][id]"
               /\ pairs[2 * i - 1].value = Str(ToString(stored[i].cosmetic_id))
               /\ pairs[2 * i].name = "cosmetic_ids[" \o ToString(i - 1) \o "][quantity]"
               /\ pairs[2 * i].value = Str(ToString(stored[i].quantity))

C15_Witness ==
  /\ inflight # Null
  /\ bookingData = GoodDraft
  /\ Len(cart) = 2
  /\ cart[1] = [cosmetic_id |-> 2, slug |-> "y", quantity |-> 1]
  /\ cart[2] = [cosmetic_id |-> 1, slug |-> "x", quantity |-> 2]
  /\ formData.proof = File("receipt.jpg")
  /\ Len(inflight.data) = 11
  /\ inflight.data[8] = [name |-> "cosmetic_ids[0][id]", value |-> Str("2")]
  /\ inflight.data[11] = [name |-> "cosmetic_ids[1][quantity]", value |-> Str("2")]

(***************************************************************************)
(* C16: with a booking draft, the payload's name, email, phone, address,   *)
(* city and post_code are the draft's values; post_code is the postal code *)
(* stored in the draft.                                                    *)
(***************************************************************************)
HasField(data, n) == \E k \in 1..Len(data) : data[k].name = n

FieldValue(data, n) == data[CHOOSE k \in 1..Len(data) : data[k].name = n].value

C16_ContactFieldsFromDraft ==
  (inflight # Null /\ bookingData # Null)
    => LET data == inflight.data
       IN /\ \A n \in PayloadContactNames : HasField(data, n)
          /\ FieldValue(data, "name") = Str(bookingData.name)
          /\ FieldValue(data, "email") = Str(bookingData.email)
          /\ FieldValue(data, "phone") = Str(bookingData.phone)
          /\ FieldValue(data, "address") = Str(bookingData.address)
          /\ FieldValue(data, "city") = Str(bookingData.city)
          /\ FieldValue(data, "post_code") = Str(bookingData.post_codes)

(***************************************************************************)
(* Claims about the order lookup page, checked under OrdersSpec.           *)
(***************************************************************************)
NotFoundNavigation ==
  /\ location = "/my-booking"
  /\ navState = [bookingDetails |-> Null, notFound |-> TRUE]

LookupResolved == lastEvent.op = "ordersResponse" /\ lastEvent.response.kind = "resolved"

LookupRejected == lastEvent.op = "ordersResponse" /\ lastEvent.response.kind = "rejected"

LookupFound ==
  /\ LookupResolved
  /\ lastEvent.response.status = 200
  /\ lastEvent.response.data \in BookingRecords

\* C17: a 200 response with a data payload navigates to /my-booking with
\* that payload and notFound false; a resolved response with another status
\* or without a data payload navigates there with null and notFound true.
C17_ResolvedLookupNavigates ==
  /\ LookupFound =>
       /\ location = "/my-booking"
       /\ navState = [bookingDetails |-> lastEvent.response.data, notFound |-> FALSE]
  /\ LookupResolved /\ ~LookupFound => NotFoundNavigation

C17_Witness ==
  /\ LookupResolved
  /\ lastEvent.response.status = 201
  /\ lastEvent.response.data \in BookingRecords
  /\ NotFoundNavigation

Lookup404 ==
  /\ LookupRejected
  /\ lastEvent.response.axios
  /\ lastEvent.response.status = 404

\* C18: a lookup rejected with HTTP 404 navigates to /my-booking with null
\* and notFound true, and leaves loading false with no request in flight.
C18_NotFoundIsHandled ==
  Lookup404 => NotFoundNavigation /\ ordersLoading = FALSE /\ ordersInflight = Null

C18_Witness == Lookup404 /\ NotFoundNavigation /\ ~ordersLoading

\* C19: a lookup that fails in any other way (another status, no response,
\* an exception that is not the client's) navigates as not-found too.
C19_OtherFailuresNavigate ==
  LookupRejected /\ ~Lookup404 => NotFoundNavigation

LookupPairInvalid ==
  \/ ordersForm.booking_trx_id = ""
  \/ ordersForm.email \notin {"a@b.com"}

\* C20: a submit whose pair fails validation issues no request, sets
\* formErrors, leaves loading false and navigates nowhere; a submit whose
\* pair is valid clears formErrors and issues exactly one POST /check-booking
\* with the email and booking_trx_id the form holds at that moment, and later
\* edits of the form do not change the request.
C20_LookupValidation ==
  [][/\ lastEvent'.op = "ordersSubmit" /\ LookupPairInvalid =>
          /\ ordersErrors' # <<>>
          /\ ordersLoading' = FALSE
          /\ ordersInflight' = Null
          /\ ordersPostCount' = ordersPostCount
          /\ UNCHANGED <<location, navState>>
     /\ lastEvent'.op = "ordersSubmit" /\ ~LookupPairInvalid =>
          /\ ordersErrors' = <<>>
          /\ ordersInflight' = [url |-> "/check-booking",
                                data |-> [email |-> ordersForm.email,
                                          booking_trx_id |-> ordersForm.booking_trx_id]]
          /\ ordersPostCount' = ordersPostCount + 1
     /\ lastEvent'.op = "ordersChange" => UNCHANGED <<ordersInflight, ordersPostCount>>
    ]_vars

C20_Witness ==
  /\ lastEvent.op = "ordersSubmit"
  /\ LookupPairInvalid
  /\ ordersErrors # <<>>
  /\ ordersPostCount = 1
  /\ ordersInflight = Null


(***************************************************************************)
(* Claims about both pages, checked under AppSpec.                         *)
(***************************************************************************)
ValidSubmit == lastEvent.op = "submit" /\ lastEvent.valid

ValidLookupSubmit == lastEvent.op = "ordersSubmit" /\ lastEvent.valid

\* C21: nothing is retried: a POST /booking-transaction is issued by a
\* submit event that passed validation and by nothing else, one per event;
\* likewise a POST /check-booking by a valid lookup submit; and the product
\* lookups are issued once, by the mount effect, one per cart item, whatever
\* the responses are.
C21_NoAutomaticRetry ==
  /\ [](/\ Len(getLog) = Len(cart)
        /\ \A i \in 1..Len(cart) : getLog[i] = cart[i].slug)
  /\ [][/\ postCount' # postCount \/ (inflight' # inflight /\ inflight' # Null)
             => ValidSubmit'
        /\ ValidSubmit' => postCount' = postCount + 1 /\ inflight' # Null
        /\ ordersPostCount' # ordersPostCount
             \/ (ordersInflight' # ordersInflight /\ ordersInflight' # Null)
             => ValidLookupSubmit'
        /\ ValidLookupSubmit'
             => ordersPostCount' = ordersPostCount + 1 /\ ordersInflight' # Null
        /\ getLog' # getLog => lastEvent'.op = "mount" /\ getLog = <<>>
       ]_vars

\* A second submission after the first one failed.
C21_Witness ==
  /\ ValidSubmit
  /\ postCount = 2
  /\ Len(getLog) = 2
  /\ \E i \in 1..Len(lookups) : lookups[i].state = "fulfilled"


NothingOutstanding ==
  /\ inflight = Null
  /\ ordersInflight = Null
  /\ \A i \in 1..Len(lookups) : lookups[i].state # "pending"

\* The payment form is on screen and its submit button is enabled.
PaymentInteractive == ~loading /\ summary.screen = "payment"

LookupInteractive == ~ordersLoading /\ location = OrdersRoute

AfterValidationFailure ==
  lastEvent.op = "submit" /\ ~lastEvent.valid

AfterFetchFailure ==
  joined = "rejected" /\ location = PaymentRoute /\ NothingOutstanding

AfterFailedSubmission ==
  /\ lastEvent.op = "response"
  /\ lastEvent.at = PaymentRoute
  /\ location = PaymentRoute

AfterFailedLookup ==
  /\ lastEvent.op = "ordersResponse"
  /\ lastEvent.at = OrdersRoute
  /\ location = OrdersRoute

\* C22: after a validation failure, a failed product-detail fetch, a failed
\* payment submission or a failed order lookup, once nothing is outstanding,
\* loading is false and the user can trigger a submission again.
C22_FailuresReturnToInteractive ==
  /\ AfterValidationFailure => PaymentInteractive
  /\ AfterFetchFailure => PaymentInteractive
  /\ AfterFailedSubmission => PaymentInteractive
  /\ AfterFailedLookup => LookupInteractive


(***************************************************************************)
(* Claims about the payment submission flow, checked under Spec.           *)
(***************************************************************************)
\* C23: at most one POST /booking-transaction is in flight: while one is,
\* loading is true and the form is not on screen, and a submit event that
\* issues a request finds none in flight, under every interleaving.
C23_OneSubmissionInFlight ==
  /\ [](inflight # Null => loading /\ summary.screen # "payment")
  /\ [][lastEvent'.op = "submit" =>
          /\ inflight = Null
          /\ ~loading
          /\ lastEvent'.valid => inflight' # Null /\ loading'
       ]_vars

\* The second submission, issued after the first one has been answered.
C23_Witness ==
  /\ lastEvent = [op |-> "submit", valid |-> TRUE]
  /\ postCount = 2
  /\ inflight # Null
  /\ loading


FetchCompleted ==
  /\ joined = "fulfilled"
  /\ Len(lookups) >= 1
  /\ \A i \in 1..Len(lookups) : lookups[i].state = "fulfilled"

\* C24: a POST /booking-transaction is issued only after the product-detail
\* fetch of this page entry has succeeded: while the fetch is in flight or
\* after it failed the form is not on screen and nothing has been sent, and
\* every payload sent carries a non-empty cosmetic_ids list equal to the
\* (id, quantity) pairs of the stored cart.
C24_SubmitOnlyAfterFetch ==
  /\ [](~FetchCompleted => summary.screen # "payment" /\ postCount = 0 /\ inflight = Null)
  /\ [][lastEvent'.op = "submit" /\ lastEvent'.valid =>
          /\ FetchCompleted
          /\ LET pairs == PairEntries(inflight'.data)
                 stored == JsonParse(storage.cart)
             IN /\ Len(stored) >= 1
                /\ Len(pairs) = 2 * Len(stored)
                /\ \A i \in 1..Len(stored) :
                     /\ pairs[2 * i - 1].value = Str(ToString(stored[i].cosmetic_id))
                     /\ pairs[2 * i].value = Str(ToString(stored[i].quantity))
       ]_vars

\* A payload sent for a cart of two items.
C24_Witness ==
  /\ lastEvent = [op |-> "submit", valid |-> TRUE]
  /\ FetchCompleted
  /\ Len(PairEntries(inflight.data)) = 4


(***************************************************************************)
(* Claims about requests that outlive their page, checked under AppSpec.   *)
(***************************************************************************)
LateAcceptedResponse ==
  /\ lastEvent.op = "response"
  /\ lastEvent.at # PaymentRoute
  /\ lastEvent.response.kind = "resolved"
  /\ lastEvent.response.status \in {200, 201}
  /\ lastEvent.response.data # Undefined

LateLookupResponse ==
  /\ lastEvent.op = "ordersResponse"
  /\ lastEvent.at # OrdersRoute
  /\ \/ lastEvent.response.kind = "resolved"
     \/ lastEvent.response.status = 404

\* C25: a request in flight is not cancelled by leaving the page: a 200/201
\* response to POST /booking-transaction that arrives after the user left
\* still removes cart and bookingData from storage and navigates to the
\* confirmation route, and a late order-lookup response still navigates to
\* /my-booking.
C25_NoCancellation ==
  /\ LateAcceptedResponse =>
       /\ storage = [cart |-> Null, bookingData |-> Null]
       /\ location = BookingFinishedUrl(Prop(lastEvent.response.data, "booking_trx_id"),
                                        Prop(lastEvent.response.data, "email"))
       /\ inflight = Null
  /\ LateLookupResponse =>
       /\ location = "/my-booking"
       /\ navState # Null
       /\ ordersInflight = Null

C25_Witness ==
  /\ LateAcceptedResponse
  /\ lastEvent.at = "/booking"
  /\ storage = [cart |-> Null, bookingData |-> Null]
  /\ location = "/booking-finished?trx_id=TRX1&email=a@b.com"


(***************************************************************************)
(* Carts with repeated products, checked under PricingSpec.                *)
(***************************************************************************)
\* The i-th detail is the product of the i-th cart entry.
DetailsOfCart ==
  /\ Len(cosmeticDetails) = Len(cart)
  /\ \A i \in 1..Len(cart) : cosmeticDetails[i].id = cart[i].cosmetic_id

\* C26: for every cart whose details were all fetched, a cart with two
\* entries of one product id included, subtotal is the sum over the cart
\* entries of the price of the entry's product times the entry's quantity.
C26_SubtotalCountsEveryEntry ==
  DetailsOfCart
    => subtotal = SumOf([i \in 1..Len(cart) |->
                           cosmeticDetails[i].price * cart[i].quantity])

(***************************************************************************)
(* More claims about the order lookup page, checked under OrdersSpec.      *)
(***************************************************************************)
\* C27: in the order lookup, loading is true exactly while a POST
\* /check-booking is in flight: true from the submit that issues it, false
\* again once it completes, whatever the outcome, navigation or not.
C27_LoadingTracksLookup ==
  /\ ordersLoading <=> ordersInflight # Null
  /\ ValidLookupSubmit => ordersLoading
  /\ lastEvent.op = "ordersResponse" => ~ordersLoading

\* A failure that does not navigate.
C27_Witness ==
  /\ LookupRejected
  /\ ~Lookup404
  /\ location = OrdersRoute
  /\ ~ordersLoading
  /\ ordersPostCount = 1

\* C28: at most one POST /check-booking is in flight: a lookup submit finds
\* no request in flight and loading false, and a navigation to /my-booking
\* is made by the response of the one request in flight, which it consumes.
C28_OneLookupInFlight ==
  [][/\ lastEvent'.op = "ordersSubmit" => ordersInflight = Null /\ ~ordersLoading
     /\ location' # location /\ location' = "/my-booking" =>
          /\ lastEvent'.op = "ordersResponse"
          /\ ordersInflight # Null
          /\ ordersInflight' = Null
    ]_vars

\* The second lookup, issued after the first one failed.
C28_Witness ==
  /\ ValidLookupSubmit
  /\ ordersPostCount = 2
  /\ ordersInflight # Null


(***************************************************************************)
(* Field errors across payment attempts, checked under Spec.               *)
(***************************************************************************)
\* C29: once a payment submission has passed validation, formErrors is the
\* empty list, while the request is in flight and after its response,
\* whatever the outcome; issues of an earlier rejected attempt are gone.
C29_SentAttemptClearsFormErrors ==
  /\ [](inflight # Null => formErrors = <<>>)
  /\ [][(lastEvent'.op = "submit" /\ lastEvent'.valid) \/ lastEvent'.op = "response"
          => formErrors' = <<>>]_vars

\* A failed submission, back on the form.
C29_Witness ==
  /\ lastEvent.op = "response"
  /\ lastEvent.response.kind = "rejected"
  /\ location = PaymentRoute
  /\ summary.screen = "payment"
  /\ formData.proof \in ProofFiles
  /\ formErrors = <<>>

====
